---------------------------- MODULE Spec2Model ----------------------------
(***************************************************************************)
(* A model of the cricbuzz scraper: the match pipeline of                  *)
(* src/sports_records.py (SportsMatchScraper.scrape, get_match_details,    *)
(* SportsMatchRecords.save_matches) and the squad enrichment of            *)
(* src/squads.py (scrape_squads, process_col, parse_name_role,             *)
(* fetch_player_profile).                                                  *)
(*                                                                         *)
(* Text is modelled as a sequence of one-character strings, so that        *)
(* upper(), lower(), title(), split(), strip(), slicing and the substring  *)
(* test are computed the way Python computes them.  Python's None is the   *)
(* value None below, which is no text.                                     *)
(***************************************************************************)
EXTENDS Integers, Sequences, FiniteSets, TLC

VARIABLES
    given,      \* the raw material the argument is built from
    input,      \* the argument handed to the function under check
    called,     \* whether the function has been applied
    output      \* its result, None before the call

pureVars == <<given, input, called, output>>

VARIABLES
    web,            \* what the site has served so far: a set of [url, doc]
    pc,             \* where the match pipeline is: idle, scraping, scraped, crashed
    links,          \* scrape: the anchors of the listing still to be visited
    seen_ids,       \* scrape: seen_ids
    matches,        \* scrape: matches, the list it returns
    tblMatches,     \* table sports_match_records
    tblOfficials,   \* table match_officials
    runs,           \* completed runs of the match pipeline
    rejected,       \* match ids of this run's candidates dropped for want of a winner
    lastDetails,    \* the last get_match_details call: pages, state after the live page, result
    firstRun,       \* the tables as the first run left them
    processed       \* this run's candidates in the order scrape processed them: [pos, href, match_id]

matchVars == <<web, pc, links, seen_ids, matches, tblMatches, tblOfficials,
               runs, rejected, lastDetails, firstRun, processed>>

VARIABLES
    sweb,           \* the squads pages the site has served so far: a set of [match_id, page]
    spc,            \* where scrape_squads is: idle, fetch (top of the match loop), col
    midx,           \* scrape_squads: the position in MATCH_IDS
    spage,          \* scrape_squads: the squads page being processed (its place in SquadPages)
    colNo,          \* which column process_col is working on, 1 or 2
    lidx,           \* process_col: links enumerated so far (i of enumerate)
    count,          \* process_col: count
    players,        \* table players
    match_squads,   \* table match_squads
    sruns,          \* completed runs of scrape_squads
    fetchLog,       \* this run's profile fetches: player id, sightings so far, result
    sightLog,       \* this run's processed links that carried a player id
    lastCol,        \* the last process_col call that returned: its links and its count
    firstPlayers    \* the players table as the first run left it

squadVars == <<sweb, spc, midx, spage, colNo, lidx, count, players, match_squads,
               sruns, fetchLog, sightLog, lastCol, firstPlayers>>
vars == <<pureVars, matchVars, squadVars>>

(***************************************************************************)
(* Text helpers                                                            *)
(***************************************************************************)
None == <<"<None>">>

UpperChars == <<"A","B","C","D","E","F","G","H","I","J","K","L","M",
                "N","O","P","Q","R","S","T","U","V","W","X","Y","Z">>
LowerChars == <<"a","b","c","d","e","f","g","h","i","j","k","l","m",
                "n","o","p","q","r","s","t","u","v","w","x","y","z">>

IsUpperChar(c) == \E i \in 1..26 : UpperChars[i] = c
IsLowerChar(c) == \E i \in 1..26 : LowerChars[i] = c
IsCased(c) == IsUpperChar(c) \/ IsLowerChar(c)

LowerChar(c) ==
    IF IsUpperChar(c) THEN LowerChars[CHOOSE i \in 1..26 : UpperChars[i] = c] ELSE c
UpperChar(c) ==
    IF IsLowerChar(c) THEN UpperChars[CHOOSE i \in 1..26 : LowerChars[i] = c] ELSE c

\* str.lower() and str.upper()
Lower(s) == [i \in 1..Len(s) |-> LowerChar(s[i])]
Upper(s) == [i \in 1..Len(s) |-> UpperChar(s[i])]

\* str.title(): a cased character is upper-cased when the character before it
\* is not cased (or there is none), and lower-cased otherwise.
Title(s) ==
    [i \in 1..Len(s) |->
        IF i = 1 \/ ~IsCased(s[i-1]) THEN UpperChar(s[i]) ELSE LowerChar(s[i])]

\* The characters \s matches and str.strip() removes.
WhiteSpace == {" ", "\t", "\n"}
IsSpace(c) == c \in WhiteSpace

\* str.strip()
Strip(s) ==
    LET solid == {i \in 1..Len(s) : ~IsSpace(s[i])}
    IN  IF solid = {} THEN <<>>
        ELSE SubSeq(s, CHOOSE i \in solid : \A j \in solid : i <= j,
                       CHOOSE i \in solid : \A j \in solid : j <= i)

\* needle in hay (Python's substring test)
Contains(hay, needle) ==
    \E i \in 0..(Len(hay) - Len(needle)) :
        \A j \in 1..Len(needle) : hay[i + j] = needle[j]

\* hay.endswith(suffix)
EndsWith(hay, suffix) ==
    /\ Len(suffix) <= Len(hay)
    /\ \A j \in 1..Len(suffix) : hay[Len(hay) - Len(suffix) + j] = suffix[j]

\* hay.startswith(prefix)
StartsWith(hay, prefix) ==
    /\ Len(prefix) <= Len(hay)
    /\ \A j \in 1..Len(prefix) : hay[j] = prefix[j]

Min(a, b) == IF a <= b THEN a ELSE b

RECURSIVE Rep(_, _)
\* the text made of n copies of character c
Rep(c, n) == IF n <= 0 THEN <<>> ELSE <<c>> \o Rep(c, n - 1)

\* All sequences over S of length at most n.
SeqsUpTo(S, n) == UNION {[1..k -> S] : k \in 0..n}

(***************************************************************************)
(* SportsMatchScraper.clean_text                                           *)
(***************************************************************************)
MaxTextLen == 100

\* re.sub(r"\s+", " ", text): every maximal run of whitespace becomes one space.
CollapseSpaces(s) ==
    LET tagged == [i \in 1..Len(s) |->
                     [c |-> s[i], first |-> (i = 1 \/ ~IsSpace(s[i-1]))]]
        kept == SelectSeq(tagged, LAMBDA t : ~IsSpace(t.c) \/ t.first)
    IN  [i \in 1..Len(kept) |-> IF IsSpace(kept[i].c) THEN " " ELSE kept[i].c]

\* text[:n]
Truncate(s, n) == SubSeq(s, 1, Min(Len(s), n))

\* clean_text without the strip() of line 61
clean_text_unstripped(text) ==
    IF text = None \/ text = <<>> THEN <<>>
    ELSE Truncate(CollapseSpaces(text), MaxTextLen)

clean_text(text) ==
    IF text = None \/ text = <<>> THEN <<>>
    ELSE Truncate(Strip(CollapseSpaces(text)), MaxTextLen)

(***************************************************************************)
(* SportsMatchScraper.extract_teams_from_slug                              *)
(***************************************************************************)
\* The first index at which needle occurs in hay (0-based offset), hay.find().
FindFirst(hay, needle) ==
    CHOOSE i \in 0..(Len(hay) - Len(needle)) :
        /\ \A j \in 1..Len(needle) : hay[i + j] = needle[j]
        /\ \A k \in 0..(i - 1) : \E j \in 1..Len(needle) : hay[k + j] # needle[j]

RECURSIVE Split(_, _)
\* s.split(sep) for a non-empty separator: always at least one part.
Split(s, sep) ==
    IF ~Contains(s, sep) THEN <<s>>
    ELSE LET i == FindFirst(s, sep)
         IN  <<SubSeq(s, 1, i)>> \o Split(SubSeq(s, i + Len(sep) + 1, Len(s)), sep)

RECURSIVE Join(_, _)
\* sep.join(parts)
Join(parts, sep) ==
    IF parts = <<>> THEN <<>>
    ELSE IF Len(parts) = 1 THEN parts[1]
    ELSE parts[1] \o sep \o Join(Tail(parts), sep)

\* Recognized International Teams: abbreviation, full name.
TEAM_MAP ==
    << <<<<"I","N","D">>, <<"I","n","d","i","a">>>>,
       <<<<"N","Z">>, <<"N","e","w"," ","Z","e","a","l","a","n","d">>>>,
       <<<<"A","U","S">>, <<"A","u","s","t","r","a","l","i","a">>>>,
       <<<<"E","N","G">>, <<"E","n","g","l","a","n","d">>>>,
       <<<<"R","S","A">>, <<"S","o","u","t","h"," ","A","f","r","i","c","a">>>>,
       <<<<"S","A">>, <<"S","o","u","t","h"," ","A","f","r","i","c","a">>>>,
       <<<<"P","A","K">>, <<"P","a","k","i","s","t","a","n">>>>,
       <<<<"W","I">>, <<"W","e","s","t"," ","I","n","d","i","e","s">>>>,
       <<<<"S","L">>, <<"S","r","i"," ","L","a","n","k","a">>>>,
       <<<<"B","A","N">>, <<"B","a","n","g","l","a","d","e","s","h">>>>,
       <<<<"A","F","G">>, <<"A","f","g","h","a","n","i","s","t","a","n">>>>,
       <<<<"Z","I","M">>, <<"Z","i","m","b","a","b","w","e">>>>,
       <<<<"I","R","E">>, <<"I","r","e","l","a","n","d">>>>,
       <<<<"I","T","A">>, <<"I","t","a","l","y">>>>,
       <<<<"S","C","O">>, <<"S","c","o","t","l","a","n","d">>>>,
       <<<<"N","E","D">>, <<"N","e","t","h","e","r","l","a","n","d","s">>>> >>

Unknown == <<"U","n","k","n","o","w","n">>
VsSep == <<" ","v","s"," ">>
VsToken == <<"V","S">>

\* TEAM_MAP.get(key, default)
TeamMapGet(key, default) ==
    IF \E i \in 1..Len(TEAM_MAP) : TEAM_MAP[i][1] = key
    THEN TEAM_MAP[CHOOSE i \in 1..Len(TEAM_MAP) : TEAM_MAP[i][1] = key][2]
    ELSE default

\* the last position of the token, which parts.index does not return
LastIndexOf(parts, token) ==
    CHOOSE i \in 1..Len(parts) :
        parts[i] = token /\ \A k \in (i + 1)..Len(parts) : parts[k] # token

\* parts.index("VS"): the first position of the token (1-based here).
IndexOf(parts, token) ==
    CHOOSE i \in 1..Len(parts) :
        parts[i] = token /\ \A k \in 1..(i - 1) : parts[k] # token

extract_teams_from_slug(slug) ==
    LET parts == Split(Upper(slug), <<"-">>)
    IN  IF \E i \in 1..Len(parts) : parts[i] = VsToken
        THEN LET idx == IndexOf(parts, VsToken)
                 t1 == IF idx > 1
                       THEN TeamMapGet(parts[idx-1], Title(parts[idx-1]))
                       ELSE Unknown
                 t2 == IF idx < Len(parts)
                       THEN TeamMapGet(parts[idx+1], Title(parts[idx+1]))
                       ELSE Unknown
             IN  t1 \o VsSep \o t2
        ELSE Unknown \o VsSep \o Unknown

(***************************************************************************)
(* squads.parse_name_role                                                  *)
(***************************************************************************)
\* the vocabulary with the short roles moved to the front
KNOWN_ROLES_shortest_first ==
    << <<"C","o","a","c","h">>,
       <<"B","a","t","t","e","r">>,
       <<"B","o","w","l","e","r">>,
       <<"B","a","t","t","i","n","g"," ","A","l","l","r","o","u","n","d","e","r">>,
       <<"B","o","w","l","i","n","g"," ","A","l","l","r","o","u","n","d","e","r">>,
       <<"W","K","-","B","a","t","t","e","r">>,
       <<"H","e","a","d"," ","C","o","a","c","h">>,
       <<"A","s","s","i","s","t","a","n","t"," ","c","o","a","c","h">>,
       <<"F","i","e","l","d","i","n","g"," ","C","o","a","c","h">>,
       <<"B","a","t","t","i","n","g"," ","C","o","a","c","h">>,
       <<"B","o","w","l","i","n","g"," ","C","o","a","c","h">> >>

\* Known Roles to check for suffix, longer matches first.
KNOWN_ROLES ==
    << <<"B","a","t","t","i","n","g"," ","A","l","l","r","o","u","n","d","e","r">>,
       <<"B","o","w","l","i","n","g"," ","A","l","l","r","o","u","n","d","e","r">>,
       <<"W","K","-","B","a","t","t","e","r">>,
       <<"B","a","t","t","e","r">>,
       <<"B","o","w","l","e","r">>,
       <<"H","e","a","d"," ","C","o","a","c","h">>,
       <<"A","s","s","i","s","t","a","n","t"," ","c","o","a","c","h">>,
       <<"F","i","e","l","d","i","n","g"," ","C","o","a","c","h">>,
       <<"B","a","t","t","i","n","g"," ","C","o","a","c","h">>,
       <<"B","o","w","l","i","n","g"," ","C","o","a","c","h">>,
       <<"C","o","a","c","h">> >>

parse_name_role(full_text) ==
    LET text == Strip(full_text)
        hits == {i \in 1..Len(KNOWN_ROLES) : EndsWith(text, KNOWN_ROLES[i])}
    IN  IF hits = {} THEN [name |-> text, role |-> None]
        ELSE LET role == KNOWN_ROLES[CHOOSE i \in hits : \A j \in hits : i <= j]
             IN  [name |-> Strip(SubSeq(text, 1, Len(text) - Len(role))),
                  role |-> role]

(***************************************************************************)
(* SportsMatchScraper.get_match_details                                    *)
(*                                                                         *)
(* A fetched page is a record with ok = TRUE and the texts of the elements *)
(* the code selects (None for an element the page lacks); fetch_page       *)
(* returning None is FailedPage.                                           *)
(***************************************************************************)
FailedPage == [ok |-> FALSE]

\* Python's truth value of an Optional[str]
Truthy(x) == x # None /\ x # <<>>

FormatUnknown == <<"U","n","k","n","o","w","n">>
FormatT20I == <<"T","2","0","I">>
FormatODI == <<"O","D","I">>
FormatTest == <<"T","e","s","t">>

\* details as get_match_details starts with; the officials keys, which only
\* the facts page adds, read as None through details.get().
NoDetails ==
    [winner |-> None, venue |-> None, match_name |-> None, format |-> FormatUnknown,
     umpire_1 |-> None, umpire_2 |-> None, tv_umpire |-> None, match_referee |-> None]

\* team_parts = [t.strip().lower() for t in teams.split(" vs ")]
TeamParts(teams) ==
    LET parts == Split(teams, VsSep)
    IN  [i \in 1..Len(parts) |-> Lower(Strip(parts[i]))]

\* a validation that accepts every text
AnyTextIsAWinner(txt, team_parts) == TRUE

\* any(team in txt.lower() for team in team_parts)
WinnerMentionsTeam(txt, team_parts) ==
    \E i \in 1..Len(team_parts) : Contains(Lower(txt), team_parts[i])

\* s.replace(sub, "")
RemoveAll(str, sub) == Join(Split(str, sub), <<>>)

\* for suffix in [...]: match_name = match_name.replace(suffix, "")
StripSuffixes(name) ==
    RemoveAll(RemoveAll(RemoveAll(name,
        <<" ","-"," ","L","i","v","e"," ","C","r","i","c","k","e","t"," ","S","c","o","r","e">>),
        <<" ","L","i","v","e"," ","S","c","o","r","e">>),
        <<" ","-"," ","S","c","o","r","e","c","a","r","d">>)

FormatOf(match_name) ==
    LET u == Upper(match_name)
    IN  IF Contains(u, FormatT20I) THEN FormatT20I
        ELSE IF Contains(u, FormatODI) THEN FormatODI
        ELSE IF Contains(u, Upper(FormatTest)) THEN FormatTest
        ELSE FormatUnknown

\* 1. the live score page: venue, match name, format, the result banner
LiveStage(teams, live) ==
    IF ~live.ok THEN NoDetails
    ELSE LET name == IF live.h1 # None THEN StripSuffixes(Strip(live.h1)) ELSE None
             txt == clean_text(live.banner)
         IN  [NoDetails EXCEPT
                !.venue = IF live.venue # None THEN clean_text(live.venue) ELSE None,
                !.match_name = IF name # None THEN Strip(name) ELSE None,
                !.format = IF name # None THEN FormatOf(name) ELSE FormatUnknown,
                !.winner = IF live.banner # None /\ WinnerMentionsTeam(txt, TeamParts(teams))
                           THEN txt ELSE None]

\* re.compile(r"won by|Match tied|No result", re.I) found in a string
IsResultString(str) ==
    LET l == Lower(str)
    IN  \/ Contains(l, <<"w","o","n"," ","b","y">>)
        \/ Contains(l, <<"m","a","t","c","h"," ","t","i","e","d">>)
        \/ Contains(l, <<"n","o"," ","r","e","s","u","l","t">>)

LabelUmpires == <<"U","m","p","i","r","e","s">>
LabelThird == <<"3","r","d"," ","U","m","p","i","r","e">>
LabelReferee == <<"R","e","f","e","r","e","e">>

\* re.sub(r"^<label>:?\s*", "", txt).strip()
LabelValue(txt, label) ==
    LET rest == SubSeq(txt, Len(label) + 1, Len(txt))
    IN  Strip(IF rest # <<>> /\ rest[1] = ":" THEN Tail(rest) ELSE rest)

\* [n.strip() for n in val.split(",") if n.strip()]
UmpireNames(val) ==
    LET parts == Split(val, <<",">>)
    IN  SelectSeq([i \in 1..Len(parts) |-> Strip(parts[i])], LAMBDA n : n # <<>>)

\* one info row of the facts page
ScanRow(d, txt) ==
    IF StartsWith(txt, LabelUmpires)
    THEN LET names == UmpireNames(LabelValue(txt, LabelUmpires))
         IN  [d EXCEPT !.umpire_1 = IF Len(names) >= 1 THEN names[1] ELSE @,
                       !.umpire_2 = IF Len(names) >= 2 THEN names[2] ELSE @]
    ELSE IF StartsWith(txt, LabelThird)
    THEN [d EXCEPT !.tv_umpire = LabelValue(txt, LabelThird)]
    ELSE IF StartsWith(txt, LabelReferee)
    THEN [d EXCEPT !.match_referee = LabelValue(txt, LabelReferee)]
    ELSE d

RECURSIVE ScanRows(_, _)
\* for row in info_rows: ...
ScanRows(d, rows) ==
    IF rows = <<>> THEN d ELSE ScanRows(ScanRow(d, Head(rows)), Tail(rows))

\* the facts page's venue: the /venues/ anchor or else the /cricket-grounds/ one
FactsVenue(facts) == IF facts.venue # None THEN facts.venue ELSE facts.ground

\* soup.find(string=...): the parent's text of the first string that matches
FactsResult(facts) ==
    LET hits == {i \in 1..Len(facts.strings) : IsResultString(facts.strings[i].s)}
    IN  IF hits = {} THEN None
        ELSE clean_text(facts.strings[CHOOSE i \in hits : \A j \in hits : i <= j].parent)

\* a facts stage that writes the venue and the winner it finds over the live page's
FactsStageOverwrites(d, teams, facts) ==
    IF ~facts.ok THEN d
    ELSE LET res == FactsResult(facts)
             merged ==
                [d EXCEPT
                   !.venue = IF FactsVenue(facts) # None
                             THEN clean_text(FactsVenue(facts)) ELSE @,
                   !.winner = IF res # None /\ WinnerMentionsTeam(res, TeamParts(teams))
                              THEN res ELSE @,
                   !.umpire_1 = None, !.umpire_2 = None,
                   !.tv_umpire = None, !.match_referee = None]
         IN  ScanRows(merged, facts.rows)

\* 2. the match facts page: venue and winner fallback, officials
FactsStage(d, teams, facts) ==
    IF ~facts.ok THEN d
    ELSE LET res == FactsResult(facts)
             merged ==
                [d EXCEPT
                   !.venue = IF ~Truthy(d.venue) /\ FactsVenue(facts) # None
                             THEN clean_text(FactsVenue(facts)) ELSE @,
                   !.winner = IF /\ ~Truthy(d.winner)
                                 /\ res # None
                                 /\ WinnerMentionsTeam(res, TeamParts(teams))
                              THEN res ELSE @,
                   !.umpire_1 = None, !.umpire_2 = None,
                   !.tv_umpire = None, !.match_referee = None]
         IN  ScanRows(merged, facts.rows)

get_match_details(teams, live, facts) ==
    FactsStage(LiveStage(teams, live), teams, facts)

(***************************************************************************)
(* SportsMatchScraper.scrape: candidate discovery                          *)
(***************************************************************************)
EXCLUDE_PATTERNS ==
    << <<"p","r","e","m","i","e","r","-","l","e","a","g","u","e">>,
       <<"s","u","p","e","r","-","s","m","a","s","h">>,
       <<"b","i","g","-","b","a","s","h">>,
       <<"p","s","l">>,
       <<"i","p","l">>,
       <<"b","p","l">>,
       <<"c","p","l">>,
       <<"s","a","2","0">>,
       <<"h","u","n","d","r","e","d">>,
       <<"r","a","n","j","i">>,
       <<"u","1","9">>,
       <<"w","o","m","e","n">>,
       <<"d","o","m","e","s","t","i","c">>,
       <<"f","i","r","s","t","-","c","l","a","s","s">> >>

INTL_PATTERNS ==
    << <<"t","o","u","r","-","o","f">>,
       <<"t","2","0","i">>,
       <<"o","d","i">>,
       <<"t","e","s","t","-">> >>

\* any(p in url for p in patterns)
ContainsAny(url, patterns) == \E i \in 1..Len(patterns) : Contains(url, patterns[i])

Digits == {"0","1","2","3","4","5","6","7","8","9"}

\* the end of the digit run that starts at i + 1, when a "/" follows it
DigitRunEnd(str, i) ==
    CHOOSE j \in (i + 1)..Len(str) : \A k \in (i + 1)..j : str[k] \in Digits
                                     /\ (j = Len(str) \/ str[j + 1] \notin Digits)

\* /(\d+)/ matches at position i
SlashDigitsSlashAt(str, i) ==
    /\ i + 2 <= Len(str)
    /\ str[i] = "/"
    /\ str[i + 1] \in Digits
    /\ DigitRunEnd(str, i) < Len(str)
    /\ str[DigitRunEnd(str, i) + 1] = "/"

\* re.search(r"/(\d+)/", href).group(1), None without a match
MatchIdOf(href) ==
    LET at == {i \in 1..Len(href) : SlashDigitsSlashAt(href, i)}
    IN  IF at = {} THEN None
        ELSE LET i == CHOOSE k \in at : \A m \in at : k <= m
             IN  SubSeq(href, i + 1, DigitRunEnd(href, i))

LiveScoresPath == <<"/","l","i","v","e","-","c","r","i","c","k","e","t","-","s","c","o","r","e","s">>

\* href matches re.compile(r"/live-cricket-scores/\d+/")
IsLiveScoreLink(href) ==
    \E i \in 1..Len(href) :
        /\ StartsWith(SubSeq(href, i, Len(href)), LiveScoresPath)
        /\ SlashDigitsSlashAt(href, i + Len(LiveScoresPath))

\* href.split("/")[-1]
SlugOf(href) == LET parts == Split(href, <<"/">>) IN parts[Len(parts)]

\* a loop that forgets which ids it has seen
IsCandidateSeenIgnored(href, seen) ==
    /\ MatchIdOf(href) # None
    /\ ~ContainsAny(Lower(href), EXCLUDE_PATTERNS)
    /\ ContainsAny(Lower(href), INTL_PATTERNS)

\* the candidate passes the dedup and both keyword filters of the loop
IsCandidate(href, seen) ==
    /\ MatchIdOf(href) # None
    /\ MatchIdOf(href) \notin seen
    /\ ~ContainsAny(Lower(href), EXCLUDE_PATTERNS)
    /\ ContainsAny(Lower(href), INTL_PATTERNS)

\* the dict scrape appends for an accepted candidate
MatchRecord(match_id, teams, d) ==
    [match_id |-> match_id,
     teams |-> teams,
     match_name |-> IF Truthy(d.match_name) THEN d.match_name ELSE teams,
     format |-> d.format,
     winner |-> d.winner,
     venue |-> IF Truthy(d.venue) THEN d.venue ELSE Unknown,
     officials |-> [umpire_1 |-> d.umpire_1, umpire_2 |-> d.umpire_2,
                    tv_umpire |-> d.tv_umpire, match_referee |-> d.match_referee]]

(***************************************************************************)
(* SportsMatchRecords.save_matches                                         *)
(***************************************************************************)
\* a delete that removes nothing
KeepAll(table) == table

\* DELETE FROM <table>
DeleteAll(table) == {}

MatchRow(m) ==
    [match_id |-> m.match_id, teams |-> m.teams, match_name |-> m.match_name,
     format |-> m.format, winner |-> m.winner, venue |-> m.venue]

OfficialsRow(m) ==
    [match_id |-> m.match_id,
     umpire_1 |-> m.officials.umpire_1, umpire_2 |-> m.officials.umpire_2,
     tv_umpire |-> m.officials.tv_umpire, match_referee |-> m.officials.match_referee]

\* match_id is the PRIMARY KEY of both tables
HasKey(table, id) == \E r \in table : r.match_id = id

RECURSIVE InsertMatches(_, _)
\* for m in matches: INSERT INTO sports_match_records, INSERT INTO match_officials;
\* ok turns FALSE at the first IntegrityError.
InsertMatches(db, ms) ==
    IF ms = <<>> \/ ~db.ok THEN db
    ELSE LET m == Head(ms)
         IN  IF HasKey(db.m, m.match_id) \/ HasKey(db.o, m.match_id)
             THEN [db EXCEPT !.ok = FALSE]
             ELSE InsertMatches([ok |-> TRUE,
                                 m |-> db.m \cup {MatchRow(m)},
                                 o |-> db.o \cup {OfficialsRow(m)}], Tail(ms))

\* the transaction of save_matches: commit, or roll back when an insert raised
save_matches(tm, to, ms) ==
    LET db == InsertMatches([ok |-> TRUE, m |-> DeleteAll(tm), o |-> DeleteAll(to)], ms)
    IN  IF db.ok THEN db ELSE [ok |-> FALSE, m |-> tm, o |-> to]

(***************************************************************************)
(* The site the match pipeline reads                                       *)
(***************************************************************************)
MaxRuns == 2

\* anchors of the listing page
AnchorIndNz == <<"/","l","i","v","e","-","c","r","i","c","k","e","t","-","s","c","o","r","e","s","/","1","0","1","/","i","n","d","-","v","s","-","n","z","-","1","s","t","-","t","2","0","i">>
AnchorXyzAus == <<"/","l","i","v","e","-","c","r","i","c","k","e","t","-","s","c","o","r","e","s","/","1","0","2","/","x","y","z","-","v","s","-","a","u","s","-","2","n","d","-","o","d","i">>
\* the id of the first anchor again, under a slug with an empty team token
AnchorNoTeam == <<"/","l","i","v","e","-","c","r","i","c","k","e","t","-","s","c","o","r","e","s","/","1","0","1","/","v","s","-","-","t","e","s","t","-","2","0","2","5">>
\* an inclusion and an exclusion keyword
AnchorIpl == <<"/","l","i","v","e","-","c","r","i","c","k","e","t","-","s","c","o","r","e","s","/","1","0","3","/","i","n","d","-","v","s","-","n","z","-","i","p","l","-","t","2","0","i">>
\* no keyword at all
AnchorFinal == <<"/","l","i","v","e","-","c","r","i","c","k","e","t","-","s","c","o","r","e","s","/","1","0","4","/","s","l","-","v","s","-","w","i","-","f","i","n","a","l">>
\* no live-score link
AnchorNews == <<"/","c","r","i","c","k","e","t","-","n","e","w","s","/","1","0","5","/","i","n","d","-","v","s","-","n","z","-","t","2","0","i">>
\* the id of AnchorIpl under a slug that passes both filters
AnchorNzInd == <<"/","l","i","v","e","-","c","r","i","c","k","e","t","-","s","c","o","r","e","s","/","1","0","3","/","n","z","-","v","s","-","i","n","d","-","3","r","d","-","o","d","i">>

AnchorLists ==
    { <<>>,
      <<AnchorIndNz>>,
      <<AnchorIndNz, AnchorXyzAus>>,
      <<AnchorNoTeam, AnchorIndNz, AnchorXyzAus>>,
      <<AnchorIpl, AnchorFinal, AnchorNews, AnchorXyzAus>>,
      <<AnchorXyzAus, AnchorXyzAus, AnchorIndNz>>,
      <<AnchorIpl, AnchorNzInd, AnchorIndNz>> }

ListingPages ==
    {FailedPage} \cup {[ok |-> TRUE, anchors |-> a] : a \in AnchorLists}

LivePages ==
    { FailedPage,
      [ok |-> TRUE,
       venue |-> <<"E","d","e","n"," "," ","G","a","r","d","e","n","s">>,
       h1 |-> <<"I","n","d","i","a"," ","v","s"," ","N","e","w"," ","Z","e","a","l","a","n","d",","," ","1","s","t"," ","T","2","0","I"," ","-"," ","L","i","v","e"," ","C","r","i","c","k","e","t"," ","S","c","o","r","e">>,
       banner |-> <<" ","I","n","d","i","a"," ","w","o","n"," ","b","y"," ","5"," ","w","k","t","s">>,
       rows |-> <<<<"U","m","p","i","r","e","s",":"," ","X",","," ","Y">>>>],
      [ok |-> TRUE,
       venue |-> <<>>,
       h1 |-> <<"2","n","d"," ","O","D","I"," ","L","i","v","e"," ","S","c","o","r","e">>,
       banner |-> <<"A","U","S","T","R","A","L","I","A"," ","W","O","N"," ","B","Y"," ","3"," ","R","U","N","S">>,
       rows |-> <<>>],
      [ok |-> TRUE,
       venue |-> None,
       h1 |-> None,
       banner |-> <<"M","a","t","c","h"," ","t","i","e","d">>,
       rows |-> <<<<"R","e","f","e","r","e","e",":"," ","Z">>>>] }

FactsPages ==
    { FailedPage,
      [ok |-> TRUE,
       venue |-> None,
       ground |-> <<"W","a","n","k","h","e","d","e">>,
       strings |-> <<[s |-> <<"N","e","w"," ","Z","e","a","l","a","n","d"," ","w","o","n"," ","b","y"," ","2"," ","r","u","n","s">>,
                      parent |-> <<"R","e","s","u","l","t",":"," ","N","e","w"," ","Z","e","a","l","a","n","d"," ","w","o","n"," ","b","y"," ","2"," ","r","u","n","s">>]>>,
       rows |-> <<
                 <<"U","m","p","i","r","e","s",":"," ","A",","," ","B",","," ","C">>, 
                 <<"3","r","d"," ","U","m","p","i","r","e"," ","D">>, 
                 <<"R","e","f","e","r","e","e",":"," ","E">>, 
                 <<"T","o","s","s",":"," ","x">>>>],
      [ok |-> TRUE,
       venue |-> <<"M","C","G">>,
       ground |-> <<"G","a","b","b","a">>,
       strings |-> <<[s |-> <<"n","o"," ","r","e","s","u","l","t">>,
                      parent |-> <<"N","o"," ","r","e","s","u","l","t">>]>>,
       rows |-> <<
                 <<"U","m","p","i","r","e","s",":"," "," ",","," ","F">>>>],
      [ok |-> TRUE,
       venue |-> None,
       ground |-> None,
       strings |-> <<[s |-> <<"P","r","e","v","i","e","w">>,
                      parent |-> <<"P","r","e","v","i","e","w">>], [s |-> <<"X","y","z"," ","W","O","N"," ","B","Y"," ","1"," ","r","u","n">>,
                      parent |-> <<"X","y","z"," ","W","O","N"," ","B","Y"," ","1"," ","r","u","n">>]>>,
       rows |-> <<>>] }

ListingUrl == <<"recent-matches">>
LiveUrl(match_id, slug) == <<"live-cricket-scores", match_id, slug>>
FactsUrl(match_id, slug) == <<"cricket-match-facts", match_id, slug>>

\* fetch_page(url) returns doc: one of the pages the site may hold there, and
\* the page already served for this url if there is one.
Serves(url, pages, doc) ==
    /\ doc \in pages
    /\ \A w \in web : w.url = url => w.doc = doc

\* rows other runs left in the tables
OldTables ==
    { [m |-> {}, o |-> {}],
      [m |-> {[match_id |-> <<"1","0","1">>, teams |-> <<"A">>, match_name |-> <<"A">>,
               format |-> FormatUnknown, winner |-> <<>>, venue |-> Unknown]},
       o |-> {[match_id |-> <<"9">>, umpire_1 |-> None, umpire_2 |-> None,
               tv_umpire |-> None, match_referee |-> None]}] }

NoCall ==
    [valid |-> FALSE, teams |-> <<>>, live |-> FailedPage, facts |-> FailedPage,
     afterLive |-> NoDetails, final |-> NoDetails]
NoFirstRun == [done |-> FALSE, m |-> {}, o |-> {}]

\* the squad enrichment before its first run
NoColumn == [valid |-> FALSE, page |-> 0, col |-> 0, match_id |-> <<>>, team |-> <<>>,
             count |-> 0]

SquadIdle ==
    /\ sweb = {}
    /\ spc = "idle"
    /\ midx = 0
    /\ spage = 0
    /\ colNo = 0
    /\ lidx = 0
    /\ count = 0
    /\ players = {}
    /\ match_squads = {}
    /\ sruns = 0
    /\ fetchLog = <<>>
    /\ sightLog = <<>>
    /\ lastCol = NoColumn
    /\ firstPlayers = {}

PureIdle ==
    /\ given = <<>>
    /\ input = <<>>
    /\ called = FALSE
    /\ output = None

\* The match pipeline before its first run, with empty tables.
MatchIdle ==
    /\ web = {}
    /\ pc = "idle"
    /\ links = <<>>
    /\ seen_ids = {}
    /\ matches = <<>>
    /\ tblMatches = {}
    /\ tblOfficials = {}
    /\ runs = 0
    /\ rejected = {}
    /\ lastDetails = NoCall
    /\ firstRun = NoFirstRun
    /\ processed = <<>>

InitMatch ==
    /\ PureIdle
    /\ SquadIdle
    /\ web = {}
    /\ pc = "idle"
    /\ links = <<>>
    /\ seen_ids = {}
    /\ matches = <<>>
    /\ \E old \in OldTables : tblMatches = old.m /\ tblOfficials = old.o
    /\ runs = 0
    /\ rejected = {}
    /\ lastDetails = NoCall
    /\ firstRun = NoFirstRun
    /\ processed = <<>>

\* soup.find_all("a", href=...) of the listing page this run fetched
ListingLinks ==
    LET doc == (CHOOSE w \in web : w.url = ListingUrl).doc
    IN  IF doc.ok THEN SelectSeq(doc.anchors, IsLiveScoreLink) ELSE <<>>

\* scrape() starts: the listing is fetched; a failure returns [] at once
StartScrape ==
    /\ pc = "idle"
    /\ runs < MaxRuns
    /\ \E doc \in ListingPages :
        /\ Serves(ListingUrl, ListingPages, doc)
        /\ web' = web \cup {[url |-> ListingUrl, doc |-> doc]}
        /\ links' = IF doc.ok THEN SelectSeq(doc.anchors, IsLiveScoreLink) ELSE <<>>
        /\ pc' = IF doc.ok THEN "scraping" ELSE "scraped"
    /\ seen_ids' = {}
    /\ matches' = <<>>
    /\ rejected' = {}
    /\ processed' = <<>>
    /\ UNCHANGED <<pureVars, squadVars, tblMatches, tblOfficials, runs, lastDetails,
                   firstRun>>

\* one pass of the loop that ends in a continue before the detail pages
SkipLink ==
    /\ pc = "scraping"
    /\ links # <<>>
    /\ ~IsCandidate(Head(links), seen_ids)
    /\ links' = Tail(links)
    /\ UNCHANGED <<pureVars, squadVars, web, pc, seen_ids, matches, tblMatches, tblOfficials,
                   runs, rejected, lastDetails, firstRun, processed>>

\* one pass of the loop for a candidate: both detail pages, then accept or drop
VisitLink ==
    /\ pc = "scraping"
    /\ links # <<>>
    /\ IsCandidate(Head(links), seen_ids)
    /\ LET href == Head(links)
           match_id == MatchIdOf(href)
           slug == SlugOf(href)
           teams == extract_teams_from_slug(slug)
       IN  \E live \in LivePages, facts \in FactsPages :
            /\ Serves(LiveUrl(match_id, slug), LivePages, live)
            /\ Serves(FactsUrl(match_id, slug), FactsPages, facts)
            /\ web' = web \cup {[url |-> LiveUrl(match_id, slug), doc |-> live],
                                [url |-> FactsUrl(match_id, slug), doc |-> facts]}
            /\ seen_ids' = seen_ids \cup {match_id}
            /\ processed' = Append(processed,
                                    [pos |-> Len(ListingLinks) - Len(links) + 1,
                                     href |-> href, match_id |-> match_id])
            /\ LET details == get_match_details(teams, live, facts)
               IN  /\ lastDetails' = [valid |-> TRUE, teams |-> teams, live |-> live,
                                      facts |-> facts,
                                      afterLive |-> LiveStage(teams, live),
                                      final |-> details]
                   /\ IF Truthy(details.winner)
                      THEN /\ matches' = Append(matches, MatchRecord(match_id, teams, details))
                           /\ rejected' = rejected
                      ELSE /\ matches' = matches
                           /\ rejected' = rejected \cup {match_id}
    /\ links' = Tail(links)
    /\ UNCHANGED <<pureVars, squadVars, pc, tblMatches, tblOfficials, runs, firstRun>>

\* the loop is over: scrape returns matches
ReturnMatches ==
    /\ pc = "scraping"
    /\ links = <<>>
    /\ pc' = "scraped"
    /\ UNCHANGED <<pureVars, squadVars, web, links, seen_ids, matches, tblMatches, tblOfficials,
                   runs, rejected, lastDetails, firstRun, processed>>

\* db.save_matches(data)
SaveMatches ==
    /\ pc = "scraped"
    /\ LET db == save_matches(tblMatches, tblOfficials, matches)
       IN  /\ tblMatches' = db.m
           /\ tblOfficials' = db.o
           /\ pc' = IF db.ok THEN "idle" ELSE "crashed"
           /\ runs' = IF db.ok THEN runs + 1 ELSE runs
           /\ firstRun' = IF db.ok /\ ~firstRun.done
                          THEN [done |-> TRUE, m |-> db.m, o |-> db.o]
                          ELSE firstRun
    /\ UNCHANGED <<pureVars, squadVars, web, links, seen_ids, matches, rejected, lastDetails,
                   processed>>

NextMatch ==
    \/ StartScrape
    \/ SkipLink
    \/ VisitLink
    \/ ReturnMatches
    \/ SaveMatches

SpecMatch == InitMatch /\ [][NextMatch]_vars

(***************************************************************************)
(* squads.py: helpers of scrape_squads                                     *)
(***************************************************************************)
MATCH_IDS ==
    << 116441, 121389, 121400, 121406, 133000, 133011, 133017,
       137826, 137831, 140537, 140548, 140559 >>

DigitChars == <<"0","1","2","3","4","5","6","7","8","9">>
DigitVal(c) == (CHOOSE i \in 1..10 : DigitChars[i] = c) - 1

RECURSIVE DigitsToInt(_)
\* int("<digits>")
DigitsToInt(ds) ==
    IF ds = <<>> THEN 0
    ELSE DigitsToInt(SubSeq(ds, 1, Len(ds) - 1)) * 10 + DigitVal(ds[Len(ds)])

RECURSIVE IntToDigits(_)
\* str(n) for n >= 0
IntToDigits(n) ==
    IF n < 10 THEN <<DigitChars[n + 1]>>
    ELSE IntToDigits(n \div 10) \o <<DigitChars[(n % 10) + 1]>>

TitleSeparators ==
    << <<",">>,
       <<"S","q","u","a","d","s">>,
       <<"S","c","o","r","e","c","a","r","d">>,
       <<"L","i","v","e">>,
       <<"M","a","t","c","h">>,
       <<"1","s","t">>,
       <<"2","n","d">>,
       <<"3","r","d">>,
       <<"4","t","h">>,
       <<"5","t","h">>,
       <<"T","2","0","I">>,
       <<"O","D","I">>,
       <<"T","e","s","t">> >>

UnknownA == <<"U","n","k","n","o","w","n"," ","A">>
UnknownB == <<"U","n","k","n","o","w","n"," ","B">>

\* extract_teams_from_title; a title that is None raises inside the try and
\* falls through to the placeholders.
extract_teams_from_title(title) ==
    IF title = None \/ ~Contains(title, VsSep) THEN <<UnknownA, UnknownB>>
    ELSE LET parts == Split(title, VsSep)
             remainder == parts[2]
             cuts == {FindFirst(remainder, TitleSeparators[k]) :
                        k \in {k \in 1..Len(TitleSeparators) :
                                 Contains(remainder, TitleSeparators[k])}}
             idx == IF cuts = {} THEN Len(remainder)
                    ELSE CHOOSE i \in cuts : \A j \in cuts : i <= j
         IN  <<Strip(parts[1]), Strip(SubSeq(remainder, 1, idx))>>

SquadsTitlePrefix == <<"C","r","i","c","k","e","t"," ","m","a","t","c","h"," ","s","q","u","a","d","s"," ","|"," ">>

\* t1_name, t2_name of scrape_squads
TeamNames(title) ==
    LET names == extract_teams_from_title(title)
    IN  <<RemoveAll(names[1], SquadsTitlePrefix), RemoveAll(names[2], SquadsTitlePrefix)>>

ProfilesPath == <<"/","p","r","o","f","i","l","e","s">>

\* href matches re.compile(r"/profiles/")
IsProfileLink(href) == Contains(href, ProfilesPath \o <<"/">>)

\* the places where /profiles/(\d+)/ matches
ProfileIdAt(href) ==
    {i \in 1..Len(href) :
        /\ StartsWith(SubSeq(href, i, Len(href)), ProfilesPath)
        /\ SlashDigitsSlashAt(href, i + Len(ProfilesPath))}

\* m = re.search(r"/profiles/(\d+)/", href)
HasProfileId(href) == ProfileIdAt(href) # {}

\* int(m.group(1))
ProfileIdOf(href) ==
    LET i == (CHOOSE k \in ProfileIdAt(href) : \A m \in ProfileIdAt(href) : k <= m)
                + Len(ProfilesPath)
    IN  DigitsToInt(SubSeq(href, i + 1, DigitRunEnd(href, i)))

MaxSquad == 11

\* a cap that lets one link more through
WithinCapOffByOne(i) == ~(i > MaxSquad)

\* the loop of process_col goes on at index i (0-based): if i >= 11: break
WithinCap(i) == ~(i >= MaxSquad)

(***************************************************************************)
(* squads.fetch_player_profile                                             *)
(*                                                                         *)
(* A profile page is the texts of its div elements, all children of one    *)
(* parent, in document order.                                              *)
(***************************************************************************)
LabelBorn == <<"B","o","r","n">>
LabelBirthPlace == <<"B","i","r","t","h"," ","P","l","a","c","e">>
LabelNickname == <<"N","i","c","k","n","a","m","e">>
LabelHeight == <<"H","e","i","g","h","t">>
LabelBatting == <<"B","a","t","t","i","n","g"," ","S","t","y","l","e">>
LabelBowling == <<"B","o","w","l","i","n","g"," ","S","t","y","l","e">>
FieldLabels ==
    {LabelBorn, LabelBirthPlace, LabelNickname, LabelHeight, LabelBatting, LabelBowling}

NoProfile ==
    [birth_date |-> None, birth_place |-> None, nickname |-> None,
     height |-> None, batting_style |-> None, bowling_style |-> None]

\* the value the scan finds for one label
FieldValue(divs, label) ==
    LET occ == {k \in 1..Len(divs) : divs[k] = label}
        \* the parent's children: the first child with the label's text whose
        \* next child has a text that is not the label
        direct == {k \in occ : k < Len(divs) /\ divs[k+1] # <<>> /\ divs[k+1] # label}
        \* the next sibling of the label's own div, unless it is a label
        sibling == {k \in occ : k < Len(divs) /\ divs[k+1] # <<>>
                                /\ divs[k+1] \notin FieldLabels}
    IN  IF direct # {} THEN divs[(CHOOSE k \in direct : \A j \in direct : k <= j) + 1]
        ELSE IF sibling # {}
        THEN divs[(CHOOSE k \in sibling : \A j \in sibling : k <= j) + 1]
        ELSE None

\* the dict fetch_player_profile returns for the page the request ended in;
\* a status other than 200 or an exception leaves every field None
fetch_player_profile(page) ==
    IF ~page.ok THEN NoProfile
    ELSE [birth_date |-> FieldValue(page.divs, LabelBorn),
          birth_place |-> FieldValue(page.divs, LabelBirthPlace),
          nickname |-> FieldValue(page.divs, LabelNickname),
          height |-> FieldValue(page.divs, LabelHeight),
          batting_style |-> FieldValue(page.divs, LabelBatting),
          bowling_style |-> FieldValue(page.divs, LabelBowling)]

(***************************************************************************)
(* The tables of squads.py                                                 *)
(***************************************************************************)
\* DROP TABLE IF EXISTS, CREATE TABLE IF NOT EXISTS
DropTable(table) == {}

\* SELECT player_id FROM players WHERE player_id = ?
PlayerExists(table, p_id) == \E r \in table : r.player_id = p_id

\* INSERT INTO players (...) VALUES (...)
InsertPlayer(table, p_id, name, role, profile) ==
    table \cup {[player_id |-> p_id, name |-> name, role |-> role,
                 birth_date |-> profile.birth_date,
                 birth_place |-> profile.birth_place,
                 nickname |-> profile.nickname,
                 height |-> profile.height,
                 batting_style |-> profile.batting_style,
                 bowling_style |-> profile.bowling_style]}

\* an update that writes a fresh, empty profile over the stored one
UpdatePlayerAndClear(table, p_id, name, role) ==
    {IF r.player_id = p_id
     THEN [r EXCEPT !.name = name, !.role = role, !.birth_date = None,
                    !.birth_place = None, !.nickname = None, !.height = None,
                    !.batting_style = None, !.bowling_style = None]
     ELSE r : r \in table}

\* UPDATE players SET name = ?, role = ? WHERE player_id = ?
UpdatePlayer(table, p_id, name, role) ==
    {IF r.player_id = p_id THEN [r EXCEPT !.name = name, !.role = role] ELSE r :
        r \in table}

\* INSERT OR IGNORE INTO match_squads (match_id, player_id, team): the row gets
\* the next squad_id, the table's only key, so no insert is ever ignored.
InsertOrIgnoreSquad(table, match_id, p_id, team) ==
    LET row == [squad_id |-> Cardinality(table) + 1, match_id |-> match_id,
                player_id |-> p_id, team |-> team]
    IN  IF \E r \in table : r.squad_id = row.squad_id THEN table
        ELSE table \cup {row}

(***************************************************************************)
(* The site scrape_squads reads                                            *)
(***************************************************************************)
MaxSquadMatches == 2
MaxSquadRuns == 2
LongColumn == 14

PlayerLink(n, text) ==
    [href |-> ProfilesPath \o <<"/">> \o IntToDigits(n) \o <<"/","p">>, text |-> text]

SquadLabels ==
    << <<"A","b","B","a","t","t","e","r">>,
       <<" ","C","d"," ","W","K","-","B","a","t","t","e","r">>,
       <<"E","f">> >>

\* more player links than a squad takes, all with an id
ColLong == [i \in 1..LongColumn |-> PlayerLink(i, SquadLabels[(i % 3) + 1])]

\* a player of the other column, another one twice, and a link that is no profile
ColRepeat ==
    << PlayerLink(1, <<"A","b"," ","X","B","o","w","l","e","r">>),
       PlayerLink(20, <<"G","h">>),
       [href |-> <<"/","t","e","a","m","s","/","2","/","x">>, text |-> <<"T","e","a","m">>],
       PlayerLink(20, <<"G","h","H","e","a","d"," ","C","o","a","c","h">>) >>

\* twelve profile links, the first without a numeric id
ColNoId ==
    << [href |-> <<"/","p","r","o","f","i","l","e","s","/","a","b","c","/","p">>, text |-> <<"Z","z">>] >>
    \o [i \in 1..MaxSquad |-> PlayerLink(i, SquadLabels[(i % 3) + 1])]

ColShort == << PlayerLink(21, <<"I","j","B","o","w","l","e","r">>) >>

\* the squads pages a match may have; the first is a failed request
SquadPages ==
    << FailedPage,
       [ok |-> TRUE,
        title |-> <<"C","r","i","c","k","e","t"," ","m","a","t","c","h"," ","s","q","u","a","d","s"," ","|"," ","I","n","d","i","a"," ","v","s"," ","N","e","w"," ","Z","e","a","l","a","n","d",","," ","1","s","t"," ","T","2","0","I">>,
        cols |-> <<ColLong, ColRepeat>>],
       [ok |-> TRUE, title |-> None, cols |-> <<ColNoId, ColShort, ColShort>>],
       [ok |-> TRUE, title |-> <<>>, cols |-> <<ColShort>>] >>

ProfileComplete ==
    [ok |-> TRUE,
     divs |-> << <<"B","o","r","n">>,
           <<"1","9","9","0">>,
           <<"B","i","r","t","h"," ","P","l","a","c","e">>,
           <<"D","e","l","h","i">>,
           <<"N","i","c","k","n","a","m","e">>,
           <<"C","h","e","e","k","u">>,
           <<"H","e","i","g","h","t">>,
           <<"1",".","7","5"," ","m">>,
           <<"B","a","t","t","i","n","g"," ","S","t","y","l","e">>,
           <<"R","i","g","h","t">>,
           <<"B","o","w","l","i","n","g"," ","S","t","y","l","e">>,
           <<"M","e","d","i","u","m">> >>]

\* a label as the value of another, an empty value, a label twice, a last label
ProfilePartial ==
    [ok |-> TRUE,
     divs |-> << <<"B","o","r","n">>,
           <<"B","i","r","t","h"," ","P","l","a","c","e">>,
           <<"G","o","a">>,
           <<"H","e","i","g","h","t">>,
           <<>>,
           <<"B","a","t","t","i","n","g"," ","S","t","y","l","e">>,
           <<"B","a","t","t","i","n","g"," ","S","t","y","l","e">>,
           <<"L","e","f","t">>,
           <<"N","i","c","k","n","a","m","e">> >>]

\* what a request for the profile of p_id may end in
ProfilePages(p_id) ==
    IF p_id = 1 THEN {FailedPage, ProfileComplete}
    ELSE IF p_id = 20 THEN {FailedPage}
    ELSE IF p_id % 2 = 0 THEN {ProfilePartial}
    ELSE {ProfileComplete}

\* the profile links of column c of page pg: col.find_all("a", href=...)
ColumnLinks(pg, c) ==
    SelectSeq(SquadPages[pg].cols[c], LAMBDA l : IsProfileLink(l.href))

InitSquad ==
    /\ PureIdle
    /\ MatchIdle
    /\ SquadIdle

\* the request succeeded and the page has the two columns: not (len(cols) < 2)
HasTwoColumns(pg) ==
    IF SquadPages[pg].ok THEN Len(SquadPages[pg].cols) >= 2 ELSE FALSE

\* str(match_id) of the match the loop is at
CurrentMatchId == IntToDigits(MATCH_IDS[midx])

\* scrape_squads starts: init_db drops and recreates both tables
StartSquads ==
    /\ spc = "idle"
    /\ sruns < MaxSquadRuns
    /\ players' = DropTable(players)
    /\ match_squads' = DropTable(match_squads)
    /\ spc' = "fetch"
    /\ midx' = 1
    /\ fetchLog' = <<>>
    /\ sightLog' = <<>>
    /\ lastCol' = NoColumn
    /\ UNCHANGED <<pureVars, matchVars, sweb, spage, colNo, lidx, count, sruns,
                   firstPlayers>>

\* the squads page of the match cannot be fetched or has fewer than two columns
SkipSquads ==
    /\ spc = "fetch"
    /\ midx <= MaxSquadMatches
    /\ \E pg \in 1..Len(SquadPages) :
        /\ \A w \in sweb : w.match_id = MATCH_IDS[midx] => w.page = pg
        /\ ~HasTwoColumns(pg)
        /\ sweb' = sweb \cup {[match_id |-> MATCH_IDS[midx], page |-> pg]}
    /\ midx' = midx + 1
    /\ UNCHANGED <<pureVars, matchVars, spc, spage, colNo, lidx, count, players,
                   match_squads, sruns, fetchLog, sightLog, lastCol, firstPlayers>>

\* the squads page is fetched and process_col(cols[0], t1_name) is entered
OpenSquads ==
    /\ spc = "fetch"
    /\ midx <= MaxSquadMatches
    /\ \E pg \in 1..Len(SquadPages) :
        /\ \A w \in sweb : w.match_id = MATCH_IDS[midx] => w.page = pg
        /\ HasTwoColumns(pg)
        /\ sweb' = sweb \cup {[match_id |-> MATCH_IDS[midx], page |-> pg]}
        /\ spage' = pg
    /\ spc' = "col"
    /\ colNo' = 1
    /\ lidx' = 0
    /\ count' = 0
    /\ UNCHANGED <<pureVars, matchVars, midx, players, match_squads, sruns, fetchLog,
                   sightLog, lastCol, firstPlayers>>

\* process_col is at a link it will look at
AtLink ==
    /\ spc = "col"
    /\ lidx < Len(ColumnLinks(spage, colNo))
    /\ WithinCap(lidx)

CurrentLink == ColumnLinks(spage, colNo)[lidx + 1]
CurrentTeam == TeamNames(SquadPages[spage].title)[colNo]

\* how often this run has processed a link of player p_id
Sightings(p_id) == Cardinality({k \in 1..Len(sightLog) : sightLog[k] = p_id})

\* a link whose href carries no numeric player id
LinkWithoutId ==
    /\ AtLink
    /\ ~HasProfileId(CurrentLink.href)
    /\ lidx' = lidx + 1
    /\ UNCHANGED <<pureVars, matchVars, sweb, spc, midx, spage, colNo, count, players,
                   match_squads, sruns, fetchLog, sightLog, lastCol, firstPlayers>>

\* a player the store does not hold: the profile is fetched and the row inserted
NewPlayer ==
    /\ AtLink
    /\ HasProfileId(CurrentLink.href)
    /\ LET p_id == ProfileIdOf(CurrentLink.href)
           parsed == parse_name_role(Strip(CurrentLink.text))
       IN  /\ ~PlayerExists(players, p_id)
           /\ \E page \in ProfilePages(p_id) :
                LET profile == fetch_player_profile(page)
                IN  /\ players' = InsertPlayer(players, p_id, parsed.name, parsed.role,
                                               profile)
                    /\ fetchLog' = Append(fetchLog,
                                     [player_id |-> p_id,
                                      sighting |-> Sightings(p_id) + 1,
                                      profile |-> profile])
           /\ match_squads' = InsertOrIgnoreSquad(match_squads, CurrentMatchId, p_id,
                                                  CurrentTeam)
           /\ sightLog' = Append(sightLog, p_id)
    /\ count' = count + 1
    /\ lidx' = lidx + 1
    /\ UNCHANGED <<pureVars, matchVars, sweb, spc, midx, spage, colNo, sruns, lastCol,
                   firstPlayers>>

\* a player the store holds: name and role are updated
KnownPlayer ==
    /\ AtLink
    /\ HasProfileId(CurrentLink.href)
    /\ LET p_id == ProfileIdOf(CurrentLink.href)
           parsed == parse_name_role(Strip(CurrentLink.text))
       IN  /\ PlayerExists(players, p_id)
           /\ players' = UpdatePlayer(players, p_id, parsed.name, parsed.role)
           /\ match_squads' = InsertOrIgnoreSquad(match_squads, CurrentMatchId, p_id,
                                                  CurrentTeam)
           /\ sightLog' = Append(sightLog, p_id)
    /\ count' = count + 1
    /\ lidx' = lidx + 1
    /\ UNCHANGED <<pureVars, matchVars, sweb, spc, midx, spage, colNo, sruns, fetchLog,
                   lastCol, firstPlayers>>

\* process_col returns count; after the second column the match is committed
EndColumn ==
    /\ spc = "col"
    /\ ~AtLink
    /\ lastCol' = [valid |-> TRUE, page |-> spage, col |-> colNo,
                   match_id |-> CurrentMatchId, team |-> CurrentTeam, count |-> count]
    /\ lidx' = 0
    /\ count' = 0
    /\ IF colNo = 1
       THEN /\ colNo' = 2
            /\ UNCHANGED <<spc, midx>>
       ELSE /\ colNo' = 0
            /\ spc' = "fetch"
            /\ midx' = midx + 1
    /\ UNCHANGED <<pureVars, matchVars, sweb, spage, players, match_squads, sruns,
                   fetchLog, sightLog, firstPlayers>>

\* the match loop is over: conn.close()
FinishSquads ==
    /\ spc = "fetch"
    /\ midx > MaxSquadMatches
    /\ spc' = "idle"
    /\ sruns' = sruns + 1
    /\ firstPlayers' = IF sruns = 0 THEN players ELSE firstPlayers
    /\ UNCHANGED <<pureVars, matchVars, sweb, midx, spage, colNo, lidx, count, players,
                   match_squads, fetchLog, sightLog, lastCol>>

NextSquad ==
    \/ StartSquads
    \/ SkipSquads
    \/ OpenSquads
    \/ LinkWithoutId
    \/ NewPlayer
    \/ KnownPlayer
    \/ EndColumn
    \/ FinishSquads

SpecSquad == InitSquad /\ [][NextSquad]_vars

\* The steps of a run that wait for no response. SkipSquads, OpenSquads and
\* NewPlayer wait for requests.get(url, headers=headers), which is given no
\* timeout: nothing in the code bounds that wait, so only the other steps are
\* certain to be taken once they are due.
SquadStepsWithoutFetch == LinkWithoutId \/ KnownPlayer \/ EndColumn \/ FinishSquads

SpecSquadFair == SpecSquad /\ WF_vars(SquadStepsWithoutFetch)

(***************************************************************************)
(* The three text functions, each applied to every input of a bounded set  *)
(***************************************************************************)
MaxPad == 1
MaxTail == 3
MaxSlugTokens == 3

\* Texts around the 100-character limit: padding, a solid body, a short tail.
BodyLens == (0..1) \cup ((MaxTextLen - 2)..(MaxTextLen + 1))
CleanInputs ==
    {None} \cup
    {pad \o Rep("x", k) \o tail :
        pad \in SeqsUpTo({" ", "\t"}, MaxPad),
        k \in BodyLens,
        tail \in SeqsUpTo({"x", " ", "\n"}, MaxTail)}

InitClean ==
    /\ given \in CleanInputs
    /\ input = given
    /\ called = FALSE
    /\ output = None
    /\ MatchIdle
    /\ SquadIdle

CallClean ==
    /\ ~called
    /\ called' = TRUE
    /\ output' = clean_text(input)
    /\ UNCHANGED <<given, input, matchVars, squadVars>>

NextClean == CallClean
SpecClean == InitClean /\ [][NextClean]_vars

\* Slug tokens: abbreviations in several cases, unknown tokens, the empty token.
SlugTokens ==
    { <<"v","s">>, <<"V","S">>, <<"i","n","d">>, <<"N","z">>, <<"a","u","s">>, <<"x","y","z">>, <<"3","r","d">>, <<>> }

InitSlug ==
    /\ given \in SeqsUpTo(SlugTokens, MaxSlugTokens)
    /\ input = Join(given, <<"-">>)
    /\ called = FALSE
    /\ output = None
    /\ MatchIdle
    /\ SquadIdle

CallSlug ==
    /\ ~called
    /\ called' = TRUE
    /\ output' = extract_teams_from_slug(input)
    /\ UNCHANGED <<given, input, matchVars, squadVars>>

NextSlug == CallSlug
SpecSlug == InitSlug /\ [][NextSlug]_vars

\* Link texts: a name, an optional blank, a role or something close to one.
LabelNames ==
    { <<"B","e","n"," ","S","t","o","k","e","s">>, <<"K">>, <<>>, <<"W","K","-">> }
NearRoles ==
    { <<"c","o","a","c","h">>,
      <<"B","a","t","t","e">>,
      <<"A","l","l","r","o","u","n","d","e","r">>,
      <<>>,
      <<"B","a","t","t","e","r",".">>,
      <<"H","e","a","d"," "," ","C","o","a","c","h">> }
LabelTails == {KNOWN_ROLES[i] : i \in 1..Len(KNOWN_ROLES)} \cup NearRoles
LinkTexts ==
    {pre \o name \o gap \o tail \o post :
        pre \in SeqsUpTo({" "}, MaxPad),
        name \in LabelNames,
        gap \in SeqsUpTo({" "}, MaxPad),
        tail \in LabelTails,
        post \in SeqsUpTo({"\n"}, MaxPad)}

\* process_col hands the stripped link text to parse_name_role.
InitRole ==
    /\ given \in LinkTexts
    /\ input = Strip(given)
    /\ called = FALSE
    /\ output = None
    /\ MatchIdle
    /\ SquadIdle

CallRole ==
    /\ ~called
    /\ called' = TRUE
    /\ output' = LET r == parse_name_role(input) IN <<r.name, r.role>>
    /\ UNCHANGED <<given, input, matchVars, squadVars>>

NextRole == CallRole
SpecRole == InitRole /\ [][NextRole]_vars

(***************************************************************************)
(* Properties of the text functions                                        *)
(***************************************************************************)
NoSpaceRun(s) == \A i \in 1..(Len(s) - 1) : ~(IsSpace(s[i]) /\ IsSpace(s[i+1]))
NoLeadingSpace(s) == s # <<>> => ~IsSpace(s[1])
NoTrailingSpace(s) == s # <<>> => ~IsSpace(s[Len(s)])

\* C8 as stated: clean_text returns at most 100 characters, with no run of two
\* or more whitespace characters and no leading or trailing whitespace, and
\* the empty string for empty or null input.
C8_CleanTextTrimmed ==
    called =>
        /\ Len(output) <= MaxTextLen
        /\ NoSpaceRun(output)
        /\ NoLeadingSpace(output)
        /\ NoTrailingSpace(output)
        /\ (input = None \/ input = <<>>) => output = <<>>

\* C8 as amended: the result has at most 100 characters, no run of two or more
\* whitespace characters and no leading whitespace; it ends in whitespace only
\* when a text longer than 100 characters was cut right after a space, and
\* then it is exactly 100 characters long; empty or null input yields the
\* empty string.
C8_CleanTextCutAfterTrim ==
    called =>
        /\ Len(output) <= MaxTextLen
        /\ NoSpaceRun(output)
        /\ NoLeadingSpace(output)
        /\ ~NoTrailingSpace(output) =>
              /\ Len(output) = MaxTextLen
              /\ input # None
              /\ Len(input) > MaxTextLen
              /\ output[MaxTextLen] = " "
        /\ (input = None \/ input = <<>>) => output = <<>>

\* A text longer than the limit, with padding in front, was normalised and cut
\* right after a space.
C8_Witness ==
    /\ called
    /\ input # None
    /\ Len(input) > MaxTextLen
    /\ IsSpace(input[1])
    /\ Len(output) = MaxTextLen
    /\ output[MaxTextLen] = " "

\* The team a slug token stands for: the abbreviation table, whatever the
\* token's case, and the title-cased token otherwise.
ResolveToken(tok) ==
    LET hits == {i \in 1..Len(TEAM_MAP) : Lower(TEAM_MAP[i][1]) = Lower(tok)}
    IN  IF hits # {} THEN TEAM_MAP[CHOOSE i \in hits : TRUE][2] ELSE Title(tok)

\* What C6 says the resolver returns for a slug made of the tokens toks.
ExpectedTeams(toks) ==
    LET vs == {i \in 1..Len(toks) : toks[i] \in {<<"v","s">>, <<"V","S">>}}
    IN  IF vs = {} THEN Unknown \o VsSep \o Unknown
        ELSE LET i == CHOOSE k \in vs : \A m \in vs : k <= m
                 side(j) == IF j < 1 \/ j > Len(toks) THEN Unknown
                            ELSE ResolveToken(toks[j])
             IN  side(i - 1) \o VsSep \o side(i + 1)

\* C6: extract_teams_from_slug returns "<Team1> vs <Team2>": "Unknown vs
\* Unknown" without a VS token, "Unknown" for a side with no neighbour, and
\* otherwise the neighbours of the first VS token, looked up in the
\* abbreviation table case-insensitively or else title-cased.
C6_SlugResolved == called => output = ExpectedTeams(given)

\* The slug xyz-vs-aus was resolved: an unknown token and a known one.
C6_Witness ==
    /\ called
    /\ given = <<<<"x","y","z">>, <<"v","s">>, <<"a","u","s">>>>
    /\ output = <<"X","y","z"," ","v","s"," ","A","u","s","t","r","a","l","i","a">>


\* C7: parse_name_role returns the first vocabulary entry that is a suffix of
\* the label, which is the longest entry that is a suffix of it, and as name
\* the label without that suffix, trimmed; with no such entry, the whole
\* label and no role.
C7_RoleIsLongestSuffix ==
    called =>
        LET hits == {i \in 1..Len(KNOWN_ROLES) : EndsWith(input, KNOWN_ROLES[i])}
        IN  IF hits = {} THEN output = <<input, None>>
            ELSE \E i \in hits :
                    /\ \A j \in hits : i <= j
                    /\ \A j \in hits : Len(KNOWN_ROLES[j]) <= Len(KNOWN_ROLES[i])
                    /\ output[2] = KNOWN_ROLES[i]
                    /\ output[1] = Strip(SubSeq(input, 1,
                                       Len(input) - Len(KNOWN_ROLES[i])))
                    /\ NoLeadingSpace(output[1]) /\ NoTrailingSpace(output[1])

\* A label ending in "WK-Batter", of which "Batter" is a suffix too, was split.
C7_Witness ==
    /\ called
    /\ EndsWith(input, <<"W","K","-","B","a","t","t","e","r">>)
    /\ output[2] = <<"W","K","-","B","a","t","t","e","r">>
    /\ output[1] = <<"B","e","n"," ","S","t","o","k","e","s">>

(***************************************************************************)
(* Properties of the match pipeline                                        *)
(***************************************************************************)
\* the run's tables are written: save_matches has committed
RunSaved == pc = "idle" /\ runs >= 1

\* the two sides of a teams string "<Team1> vs <Team2>"
TeamSides(teams) == LET parts == Split(teams, VsSep) IN {parts[i] : i \in 1..Len(parts)}

\* a winner that is non-empty and names, in any case, one side of teams
WinnerNamesASide(r) ==
    /\ r.winner # None
    /\ r.winner # <<>>
    /\ \E side \in TeamSides(r.teams) : Contains(Lower(r.winner), Lower(side))

\* C1: every record scrape returns and save_matches persists has a non-empty
\* winner that contains, case-insensitively, one of the two team names of its
\* teams string; a candidate left without a winner by both pages is dropped
\* and has no row in the matches or officials tables.
C1_WinnerValidated ==
    /\ \A i \in 1..Len(matches) : WinnerNamesASide(matches[i])
    /\ \A id \in rejected : \A i \in 1..Len(matches) : matches[i].match_id # id
    /\ RunSaved =>
        /\ \A r \in tblMatches : WinnerNamesASide(r)
        /\ \A id \in rejected : ~HasKey(tblMatches, id) /\ ~HasKey(tblOfficials, id)

\* A run saved one match and dropped another, whose live page showed a result
\* naming neither of its teams.
C1_Witness ==
    /\ RunSaved
    /\ tblMatches # {}
    /\ rejected # {}
    /\ lastDetails.valid
    /\ ~Truthy(lastDetails.final.winner)
    /\ lastDetails.live.ok
    /\ lastDetails.live.banner # None

\* C4: save_matches replaces both tables wholesale, leaving one officials row
\* per match row under the same match_id, the rows of the matches scrape
\* returned; a second run against the same fetched content leaves both tables
\* as the first run left them, whatever they held before.
C4_ReplaceOnRun ==
    RunSaved =>
        /\ tblMatches = {MatchRow(matches[i]) : i \in 1..Len(matches)}
        /\ {r.match_id : r \in tblOfficials} = {r.match_id : r \in tblMatches}
        /\ Cardinality(tblOfficials) = Cardinality(tblMatches)
        /\ Cardinality({r.match_id : r \in tblMatches}) = Cardinality(tblMatches)
        /\ runs >= 2 => tblMatches = firstRun.m /\ tblOfficials = firstRun.o

\* A second run has been saved over tables that held two matches after the
\* first run.
C4_Witness ==
    /\ RunSaved
    /\ runs = 2
    /\ Cardinality(tblMatches) = 2
    /\ Cardinality(tblOfficials) = 2

Officials(d) == <<d.umpire_1, d.umpire_2, d.tv_umpire, d.match_referee>>

\* C10 as stated: venue and winner are merged first-non-null-wins across the
\* live page and then the facts page: a venue or winner that is not null after
\* the live page is the one returned.
C10_FirstNonNullWins ==
    lastDetails.valid =>
        /\ lastDetails.afterLive.venue # None =>
              lastDetails.final.venue = lastDetails.afterLive.venue
        /\ lastDetails.afterLive.winner # None =>
              lastDetails.final.winner = lastDetails.afterLive.winner

\* C10 as amended: venue and winner are merged first-non-empty-wins across the
\* live page and then the facts page, a field being populated when it is
\* neither null nor the empty text: a venue or validated winner the live page
\* populated is never overwritten, the facts page fills a field only when the
\* live page left it unpopulated, and the officials come from the facts page
\* only.
C10_FirstPageWins ==
    lastDetails.valid =>
        LET a == lastDetails.afterLive
            f == lastDetails.final
            facts == lastDetails.facts
        IN  /\ Truthy(a.venue) => f.venue = a.venue
            /\ Truthy(a.winner) => f.winner = a.winner
            /\ f.venue # a.venue =>
                  /\ ~Truthy(a.venue)
                  /\ facts.ok
                  /\ f.venue = clean_text(FactsVenue(facts))
            /\ f.winner # a.winner =>
                  /\ ~Truthy(a.winner)
                  /\ facts.ok
                  /\ f.winner = FactsResult(facts)
            /\ Officials(a) = <<None, None, None, None>>
            /\ ~facts.ok => Officials(f) = <<None, None, None, None>>
            /\ Officials(f) =
                  Officials(get_match_details(lastDetails.teams, FailedPage, facts))

\* Both pages were fetched; the live page gave a venue and a validated winner,
\* the facts page offered another venue, another valid result and officials.
C10_Witness ==
    /\ lastDetails.valid
    /\ lastDetails.live.ok
    /\ lastDetails.facts.ok
    /\ Truthy(lastDetails.afterLive.venue)
    /\ Truthy(lastDetails.afterLive.winner)
    /\ FactsVenue(lastDetails.facts) # None
    /\ clean_text(FactsVenue(lastDetails.facts)) # lastDetails.afterLive.venue
    /\ FactsResult(lastDetails.facts) # None
    /\ FactsResult(lastDetails.facts) # lastDetails.afterLive.winner
    /\ WinnerMentionsTeam(FactsResult(lastDetails.facts), TeamParts(lastDetails.teams))
    /\ lastDetails.final.umpire_1 # None
    /\ lastDetails.live.rows # <<>>

\* the listing page of this run has been fetched
HasListing == \E w \in web : w.url = ListingUrl

\* the lower-cased URL has no exclusion keyword and at least one inclusion keyword
Qualifies(href) ==
    LET url_lower == Lower(href)
    IN  /\ \A i \in 1..Len(EXCLUDE_PATTERNS) : ~Contains(url_lower, EXCLUDE_PATTERNS[i])
        /\ \E i \in 1..Len(INTL_PATTERNS) : Contains(url_lower, INTL_PATTERNS[i])

\* C11: the candidates scrape processes have pairwise distinct match ids and
\* come in document order, each at the first anchor of its id that qualifies;
\* each has no exclusion keyword and at least one inclusion keyword in its
\* lower-cased URL, so an anchor with an exclusion keyword (with or without an
\* inclusion keyword) or with neither is never processed, and every id with a
\* qualifying anchor already passed is processed; the accepted matches are
\* processed candidates and so have pairwise distinct match ids.
C11_CandidatesDistinctInOrder ==
    HasListing =>
        LET L == ListingLinks
            n == Len(processed)
            passed == Len(L) - Len(links)
            ok == [i \in 1..Len(L) |-> Qualifies(L[i])]
            id == [i \in 1..Len(L) |-> MatchIdOf(L[i])]
        IN  /\ \A j \in 1..n, k \in 1..n :
                  j < k => /\ processed[j].match_id # processed[k].match_id
                           /\ processed[j].pos < processed[k].pos
            /\ \A k \in 1..n :
                  /\ processed[k].pos \in 1..passed
                  /\ L[processed[k].pos] = processed[k].href
                  /\ processed[k].match_id = id[processed[k].pos]
                  /\ ok[processed[k].pos]
                  /\ \A i \in 1..(processed[k].pos - 1) :
                        ~(ok[i] /\ id[i] = processed[k].match_id)
            /\ \A i \in 1..passed :
                  ok[i] => \E k \in 1..n : processed[k].match_id = id[i]
            /\ \A j \in 1..Len(matches), k \in 1..Len(matches) :
                  j < k => matches[j].match_id # matches[k].match_id
            /\ {matches[j].match_id : j \in 1..Len(matches)} \cup rejected
                  = {processed[k].match_id : k \in 1..n}
            /\ \A j \in 1..Len(matches) : matches[j].match_id \notin rejected

\* The loop is over for a listing whose first anchor of id 103 carries an
\* exclusion and an inclusion keyword and whose second anchor of id 103
\* qualifies: the second was processed, then the anchor of another id, and a
\* match was accepted.
C11_Witness ==
    /\ pc = "scraped"
    /\ HasListing
    /\ ListingLinks = <<AnchorIpl, AnchorNzInd, AnchorIndNz>>
    /\ Len(processed) = 2
    /\ processed[1].pos = 2
    /\ processed[1].href = AnchorNzInd
    /\ processed[2].pos = 3
    /\ Len(matches) >= 1

(***************************************************************************)
(* Properties of the runs as a whole                                       *)
(***************************************************************************)
\* C12: no fetch stops a run of scrape_squads. A run that
\* has started goes on to its end, every match it reaches is left behind
\* (processed or skipped), and every player link it reaches is dealt with.
C12_SquadRunGoesOn ==
    /\ (spc # "idle") ~> (spc = "idle")
    /\ \A m \in 1..MaxSquadMatches :
          (spc = "fetch" /\ midx = m) ~> (midx = m + 1)
    /\ \A i \in 0..(MaxSquad - 1) :
          (AtLink /\ lidx = i) ~> (spc = "col" /\ lidx = i + 1)

(***************************************************************************)
(* Properties of the squad enrichment                                      *)
(***************************************************************************)
\* the six biography fields of a players row or of a fetched profile
Bio(r) ==
    <<r.birth_date, r.birth_place, r.nickname, r.height, r.batting_style,
      r.bowling_style>>

\* C2: the squad membership table holds at most one row per (match_id,
\* player_id) pair; recording a pair that is already present adds no row.
C2_OneRowPerPair ==
    \A r1 \in match_squads, r2 \in match_squads :
        (r1.match_id = r2.match_id /\ r1.player_id = r2.player_id) => r1 = r2

\* a run after the first is under way or over
InRerun == (sruns >= 1 /\ spc # "idle") \/ sruns >= 2

\* C3: a second run fetches no profile of a player the first run
\* stored and leaves every such player's six biography fields as the first
\* run stored them.
C3_NoRefetchOnRerun ==
    InRerun =>
        /\ \A k \in 1..Len(fetchLog) :
              ~PlayerExists(firstPlayers, fetchLog[k].player_id)
        /\ \A r \in players, q \in firstPlayers :
              r.player_id = q.player_id => Bio(r) = Bio(q)

\* the rows of match_squads for a match and a team
SquadRows(match_id, team) ==
    {r \in match_squads : r.match_id = match_id /\ r.team = team}

\* C5 as stated: a column contributes at most eleven rows, and exactly eleven
\* when it contains more than eleven player-profile links.
C5_ElevenPerColumn ==
    lastCol.valid =>
        /\ lastCol.count <= MaxSquad
        /\ Cardinality(SquadRows(lastCol.match_id, lastCol.team)) = lastCol.count
        /\ Len(ColumnLinks(lastCol.page, lastCol.col)) > MaxSquad =>
              lastCol.count = MaxSquad

\* C5 as amended: a column contributes at most eleven rows, one for each of
\* its first eleven profile links whose target carries a numeric player id;
\* so exactly eleven when it has more than eleven links and each of the first
\* eleven carries an id.
C5_ElevenLinksLookedAt ==
    lastCol.valid =>
        LET col == ColumnLinks(lastCol.page, lastCol.col)
            looked == 1..Min(Len(col), MaxSquad)
        IN  /\ lastCol.count <= MaxSquad
            /\ Cardinality(SquadRows(lastCol.match_id, lastCol.team)) = lastCol.count
            /\ lastCol.count = Cardinality({i \in looked : HasProfileId(col[i].href)})
            /\ (Len(col) > MaxSquad /\ \A i \in looked : HasProfileId(col[i].href))
                  => lastCol.count = MaxSquad

\* A column of more than eleven links, all with an id, was processed and gave
\* eleven rows.
C5_Witness ==
    /\ lastCol.valid
    /\ Len(ColumnLinks(lastCol.page, lastCol.col)) > MaxSquad
    /\ \A i \in 1..MaxSquad : HasProfileId(ColumnLinks(lastCol.page, lastCol.col)[i].href)
    /\ lastCol.count = MaxSquad
    /\ Cardinality(SquadRows(lastCol.match_id, lastCol.team)) = MaxSquad

\* C9: within a run each player's profile is fetched at most once, on the
\* first sighting, when the store does not hold the player; later sightings
\* leave the six biography fields as that fetch left them, null included.
C9_FetchOncePerPlayer ==
    /\ \A k \in 1..Len(fetchLog) :
          /\ fetchLog[k].sighting = 1
          /\ PlayerExists(players, fetchLog[k].player_id)
          /\ \A j \in 1..Len(fetchLog) :
                fetchLog[j].player_id = fetchLog[k].player_id => j = k
    /\ \A r \in players :
          /\ Sightings(r.player_id) >= 1
          /\ \E k \in 1..Len(fetchLog) :
                /\ fetchLog[k].player_id = r.player_id
                /\ Bio(r) = Bio(fetchLog[k].profile)

\* Player 1, whose profile fetch failed, was sighted again under another label:
\* name and role are the new ones, the biography is still null.
C9_Witness ==
    /\ Sightings(1) >= 2
    /\ \E r \in players :
          /\ r.player_id = 1
          /\ Bio(r) = Bio(NoProfile)
          /\ r.name = <<"A","b"," ","X">>
          /\ r.role = <<"B","o","w","l","e","r">>
    /\ \E r \in players : r.player_id = 3 /\ Bio(r) # Bio(NoProfile)

=============================================================================
